---------------------------- MODULE Spec2Model ----------------------------
(***************************************************************************)
(* The OCHAM tool (OWL class hierarchy adjacency matrix tool).             *)
(*                                                                         *)
(* Six specifications share the variables of this module:                  *)
(*                                                                         *)
(*   Spec         the OCHAM object: the steps of process_the_ontology,     *)
(*                one action per method called, from the fields as         *)
(*                __init__ sets them to the designated result matrix,      *)
(*                then get_results, get_simple_cycles and one call of      *)
(*                get_longest_path;                                        *)
(*   SpecQuery    the object constructed without reflexivity, and          *)
(*                get_longest_path called with every list of sources and   *)
(*                every target within the bounds;                          *)
(*   SpecRejected the same objects, queried any number of times, with      *)
(*                get_longest_path also given arguments it rejects;        *)
(*   SpecClosure  the closure functions of ocham_tool_utils and the        *)
(*                reflexivity merge applied, once or twice in a row, to    *)
(*                every binary relation within the bounds;                 *)
(*   SpecPowers   transitive_closure_1 applied with every setting of       *)
(*                extra_powers, patience and early_stopping_active to      *)
(*                every sparse binary relation within the bounds;          *)
(*   SpecAll      the behaviors of Spec and those of SpecClosure.          *)
(*                                                                         *)
(* A matrix is a function [0..N-1 -> [0..N-1 -> Nat]]: the tensors hold    *)
(* floats, but every value the code can produce from a binary matrix is a  *)
(* small non-negative integer, which float32 represents exactly.           *)
(***************************************************************************)
EXTENDS Naturals, Sequences, FiniteSets

(***************************************************************************)
(* Bounds of the model.                                                    *)
(***************************************************************************)
\* the largest number of rows of a relation given to the closure functions
MaxN == 3
\* the largest number of 1s in a relation given to the closure functions
MaxOnes == 6
\* the largest number of named classes an ontology declares
MaxClasses == 3
\* the largest number of rdfs:subClassOf triples an ontology asserts
MaxEdges == 2
\* the largest number of source classes given to get_longest_path
MaxSources == 2
\* the largest number of classes of a chain
MaxChain == 5
\* the largest number of rows of a relation whose closure is taken with
\* settings other than the engine's
MaxPowerN == 3
\* the largest number of 1s in such a relation
MaxPowerOnes == 3
\* the largest extra_powers given to transitive_closure_1
MaxExtraPowers == 2
\* the largest patience given to transitive_closure_1
MaxPatience == 1

VARIABLES
    \* the OCHAM object
    onto_file,                            \* the content of the ontology file
    transitive_closure_method,            \* self.transitive_closure_method
    include_reflexivity,                  \* self.include_reflexivity
    kg,                                   \* self.kg
    classNames,                           \* self.classNames
    adjacency_matrix_asserted,            \* self.adjacency_matrix_asserted
    adjacency_matrix_transitive_closure,  \* self.adjacency_matrix_transitive_closure
    result_matrix,                        \* self.result_matrix
    pc,                                   \* the method process_the_ontology calls next
    \* the closure functions called on their own
    input,                                \* the relation given to the first call
    calls,                                \* the calls made: function, argument, returned
    \* the queries on the constructed object
    answer                                \* what the last query returned

objVars == <<onto_file, transitive_closure_method, include_reflexivity, kg, classNames,
             adjacency_matrix_asserted, adjacency_matrix_transitive_closure,
             result_matrix, pc>>
callVars == <<input, calls, answer>>
vars == <<onto_file, transitive_closure_method, include_reflexivity, kg, classNames,
          adjacency_matrix_asserted, adjacency_matrix_transitive_closure,
          result_matrix, pc, input, calls, answer>>

\* Python's None, and a field that holds a value
None == <<>>
Some(x) == <<x>>

(***************************************************************************)
(* Tensors.                                                                *)
(***************************************************************************)
Idx(N) == 0 .. (N - 1)

\* relation.shape[0]
Shape(m) == Cardinality(DOMAIN m)

torch_zeros(N) == [i \in Idx(N) |-> [j \in Idx(N) |-> 0]]

torch_eye(N) == [i \in Idx(N) |-> [j \in Idx(N) |-> IF i = j THEN 1 ELSE 0]]

\* torch.clamp(m, max=1.0)
torch_clamp(m) ==
    [i \in DOMAIN m |-> [j \in DOMAIN m[i] |-> IF m[i][j] > 1 THEN 1 ELSE m[i][j]]]

\* the + of two tensors of the same shape
torch_add(a, b) == [i \in DOMAIN a |-> [j \in DOMAIN a[i] |-> a[i][j] + b[i][j]]]

RECURSIVE Dot(_, _, _, _, _)
\* sum over k' < k of a[i][k'] * b[k'][j]
Dot(a, b, i, j, k) ==
    IF k = 0 THEN 0 ELSE Dot(a, b, i, j, k - 1) + a[i][k - 1] * b[k - 1][j]

torch_matmul(a, b) ==
    LET N == Shape(a)
    IN  [i \in Idx(N) |-> [j \in Idx(N) |-> Dot(a, b, i, j, N)]]

\* tensor.count_nonzero().item()
count_nonzero(m) ==
    Cardinality({p \in (DOMAIN m) \X (DOMAIN m) : m[p[1]][p[2]] # 0})

(***************************************************************************)
(* transitive_closure_1: the union of powers, with early stopping.         *)
(* The loop state is a record of the function's locals; idx is the power   *)
(* held in `power` (1 before the loop has run).                            *)
(***************************************************************************)
\* TC1Locals with the union starting from the empty relation
TC1Locals_EmptyUnion(relation) ==
    [power |-> relation,
     union |-> torch_zeros(Shape(relation)),
     previous_union |-> torch_zeros(Shape(relation)),
     cnt |-> 0,
     successive_unions_equal |-> FALSE,
     we_can_stop |-> FALSE,
     alert |-> FALSE,
     idx |-> 1]

TC1Locals(relation) ==
    [power |-> relation,
     union |-> relation,
     previous_union |-> torch_zeros(Shape(relation)),
     cnt |-> 0,
     successive_unions_equal |-> FALSE,
     we_can_stop |-> FALSE,
     alert |-> FALSE,
     idx |-> 1]

\* TC1UpperBound with the range one power short
TC1UpperBound_OneShort(relation, extra_powers) == Shape(relation) + extra_powers - 1

\* the upper bound of the loop's range
TC1UpperBound(relation, extra_powers) == Shape(relation) + extra_powers

\* torch_equal answering whether the tensors differ
torch_equal_Inverted(a, b) == a # b

torch_equal(a, b) == a = b

\* TC1CanStop that does not look at whether the union repeated, with the
\* patience compared by >=
TC1CanStop_AtOnce(equal, power, union, n_elements, cnt, patience) ==
    \/ count_nonzero(power) = 0
    \/ count_nonzero(union) = n_elements
    \/ cnt >= patience

\* whether early stopping sets we_can_stop in this iteration
TC1CanStop(equal, power, union, n_elements, cnt, patience) ==
    /\ equal
    /\ \/ count_nonzero(power) = 0
       \/ count_nonzero(union) = n_elements
       \/ cnt > patience

\* TC1Body without the product: the power stays the relation
TC1Body_NoProduct(s, relation, idx, patience, early_stopping_active) ==
    LET power == torch_clamp(s.power)
        union == torch_clamp(torch_add(s.union, power))
        equal == torch_equal(union, s.previous_union)
        alert == s.alert \/ (~equal /\ s.successive_unions_equal)
        cnt   == IF ~early_stopping_active THEN s.cnt
                 ELSE IF equal THEN s.cnt + 1 ELSE 0
        stop  == /\ early_stopping_active
                 /\ TC1CanStop(equal, power, union, Shape(relation) * Shape(relation),
                               cnt, patience)
    IN  [power |-> power,
         union |-> union,
         previous_union |-> union,
         cnt |-> cnt,
         successive_unions_equal |-> equal,
         we_can_stop |-> stop,
         alert |-> alert,
         idx |-> idx]

\* one iteration of the for loop, for idx
TC1Body(s, relation, idx, patience, early_stopping_active) ==
    LET power == torch_clamp(torch_matmul(s.power, relation))
        union == torch_clamp(torch_add(s.union, power))
        equal == torch_equal(union, s.previous_union)
        alert == s.alert \/ (~equal /\ s.successive_unions_equal)
        cnt   == IF ~early_stopping_active THEN s.cnt
                 ELSE IF equal THEN s.cnt + 1 ELSE 0
        stop  == /\ early_stopping_active
                 /\ TC1CanStop(equal, power, union, Shape(relation) * Shape(relation),
                               cnt, patience)
    IN  [power |-> power,
         union |-> union,
         previous_union |-> union,
         cnt |-> cnt,
         successive_unions_equal |-> equal,
         we_can_stop |-> stop,
         alert |-> alert,
         idx |-> idx]

RECURSIVE TC1Loop(_, _, _, _, _, _)
\* for idx in range(idx, ub), left by the break
TC1Loop(s, relation, idx, ub, patience, early_stopping_active) ==
    IF idx >= ub THEN s
    ELSE LET t == TC1Body(s, relation, idx, patience, early_stopping_active)
         IN  IF t.we_can_stop THEN t
             ELSE TC1Loop(t, relation, idx + 1, ub, patience, early_stopping_active)

\* the locals when the loop is left
TC1Final(relation, extra_powers, patience, early_stopping_active) ==
    TC1Loop(TC1Locals(relation), relation, 2,
            TC1UpperBound(relation, extra_powers), patience, early_stopping_active)

transitive_closure_1(relation, extra_powers, patience, early_stopping_active) ==
    LET s == TC1Final(relation, extra_powers, patience, early_stopping_active)
    IN  [tc |-> torch_clamp(s.union), alert |-> s.alert]

\* TC1RelationAfter with the union accumulated in place (union += power),
\* which writes to the caller's tensor, since union is bound to it
TC1RelationAfter_InPlace(relation, extra_powers, patience, early_stopping_active) ==
    TC1Final(relation, extra_powers, patience, early_stopping_active).union

\* the caller's tensor when transitive_closure_1 returns: power and union
\* are bound to it before the loop, and every statement of the loop binds
\* them to a new tensor
TC1RelationAfter(relation, extra_powers, patience, early_stopping_active) ==
    relation

(***************************************************************************)
(* transitive_closure_2: Warshall's algorithm on a copy of the relation.   *)
(***************************************************************************)
\* PyOr as Python's `a and b`
PyOr_And(a, b) == IF a = 0 THEN a ELSE b

\* Python's `a or b` on two numbers
PyOr(a, b) == IF a # 0 THEN a ELSE b

\* TC2Cell whose additive variant assigns mat[col, k] alone
TC2Cell_Overwrite(mat, row, col, k, operation) ==
    IF operation = "boolean_OR"
    THEN [mat EXCEPT ![row][k] = PyOr(mat[row][k], mat[col][k])]
    ELSE [mat EXCEPT ![row][k] = mat[col][k]]

\* the assignment to mat[row, k] of either variant
TC2Cell(mat, row, col, k, operation) ==
    IF operation = "boolean_OR"
    THEN [mat EXCEPT ![row][k] = PyOr(mat[row][k], mat[col][k])]
    ELSE [mat EXCEPT ![row][k] = mat[row][k] + mat[col][k]]

RECURSIVE TC2ForK(_, _, _, _, _, _)
\* for k in range(k, N)
TC2ForK(mat, row, col, k, N, operation) ==
    IF k >= N THEN mat
    ELSE TC2ForK(TC2Cell(mat, row, col, k, operation), row, col, k + 1, N, operation)

RECURSIVE TC2ForRow(_, _, _, _, _)
\* for row in range(row, N)
TC2ForRow(mat, row, col, N, operation) ==
    IF row >= N THEN mat
    ELSE TC2ForRow(IF mat[row][col] # 0
                   THEN TC2ForK(mat, row, col, 0, N, operation)
                   ELSE mat,
                   row + 1, col, N, operation)

RECURSIVE TC2ForCol(_, _, _, _)
\* for col in range(col, N)
TC2ForCol(mat, col, N, operation) ==
    IF col >= N THEN mat
    ELSE TC2ForCol(TC2ForRow(mat, 0, col, N, operation), col + 1, N, operation)

\* transitive_closure_2 without the clamp that ends the add_and_clamp variant
transitive_closure_2_NoClamp(relation, operation) ==
    TC2ForCol(relation, 0, Shape(relation), operation)

\* operation is "boolean_OR" or "add_and_clamp"
transitive_closure_2(relation, operation) ==
    LET mat == TC2ForCol(relation, 0, Shape(relation), operation)
    IN  IF operation = "boolean_OR" THEN mat ELSE torch_clamp(mat)

\* the caller's tensor when transitive_closure_2 returns: the loops write
\* to mat, which is relation.detach().clone()
TC2RelationAfter(relation, operation) == relation

(***************************************************************************)
(* Names and the triple store.                                             *)
(* A name is a string, kept as its sequence of tokens: the scheme and the  *)
(* local part.  A term of the graph is a URIRef or a blank node (BNode).   *)
(* A graph holds the (x rdf:type owl:Class) triples as the set `classes`   *)
(* of their subjects and the (x rdfs:subClassOf y) triples as the set      *)
(* `subClassOf` of <<x, y>>.                                               *)
(***************************************************************************)
LocalParts == <<"a", "b", "c", "d", "e", "f">>

\* the names of the first n named classes
NamedClasses(n) == {<<"http://", LocalParts[k]>> : k \in 1 .. n}

\* the name of an anonymous class
BlankNode == <<"_:", "x">>

\* the position of a token in the order of Python's string comparison
TokenCode(t) ==
    CASE t = "<" -> 1
      [] t = ">" -> 2
      [] t = "_:" -> 3
      [] t = "a" -> 4
      [] t = "b" -> 5
      [] t = "c" -> 6
      [] t = "d" -> 7
      [] t = "e" -> 8
      [] t = "f" -> 9
      [] t = "http://" -> 10
      [] t = "x" -> 11

RECURSIVE StrLess(_, _)
\* Python's < on two strings
StrLess(a, b) ==
    IF b = <<>> THEN FALSE
    ELSE IF a = <<>> THEN TRUE
    ELSE IF Head(a) # Head(b) THEN TokenCode(Head(a)) < TokenCode(Head(b))
    ELSE StrLess(Tail(a), Tail(b))

\* rdflib's term.n3(): a URIRef is wrapped in angle brackets, a BNode is not
n3(term) ==
    IF term.type = "URIRef" THEN <<"<">> \o term.value \o <<">">> ELSE term.value

RECURSIVE lstrip(_, _)
lstrip(str, ch) ==
    IF str # <<>> /\ Head(str) = ch THEN lstrip(Tail(str), ch) ELSE str

RECURSIVE rstrip(_, _)
rstrip(str, ch) ==
    IF str # <<>> /\ str[Len(str)] = ch
    THEN rstrip(SubSeq(str, 1, Len(str) - 1), ch) ELSE str

get_uri(uriref) == rstrip(lstrip(n3(uriref), "<"), ">")

\* the term of the graph that a name of the ontology file denotes
TermOf(name) ==
    [type |-> IF Head(name) = "_:" THEN "BNode" ELSE "URIRef", value |-> name]

\* str.startswith('http://')
StartsWithHttp(str) == str # <<>> /\ Head(str) = "http://"

\* rdflib's Graph()
EmptyGraph == [classes |-> {}, subClassOf |-> {}]

\* Graph.parse: the triples of the file are added to the graph
GraphParse(g, file) ==
    [classes |-> g.classes \cup {TermOf(c) : c \in file.classes},
     subClassOf |-> g.subClassOf \cup
                    {<<TermOf(e[1]), TermOf(e[2])>> : e \in file.subClassOf}]

RECURSIVE SortedSeq(_)
\* sorted(): the strings of S in ascending order
SortedSeq(S) ==
    IF S = {} THEN <<>>
    ELSE LET least == CHOOSE x \in S : \A y \in S : x = y \/ StrLess(x, y)
         IN  <<least>> \o SortedSeq(S \ {least})

\* name in classNames
InList(name, names) == \E p \in 1 .. Len(names) : names[p] = name

\* classNames.index(name), for a name in the list
ListIndex(names, name) ==
    (CHOOSE p \in 1 .. Len(names) :
        names[p] = name /\ \A q \in 1 .. (p - 1) : names[q] # name) - 1

\* classNames[idx]
ListAt(names, idx) == names[idx + 1]

\* a sequence the other way round
Reversed(seq) == [p \in 1 .. Len(seq) |-> seq[Len(seq) + 1 - p]]

\* The store does not fix the order in which the rows of a query result are
\* iterated: the model iterates them in ascending or in descending order.
QueryOrders == {"ascending", "descending"}

\* the rows of the owl:Class query, as terms, in the order iterated
ClassRows(g, order) ==
    LET keys == SortedSeq({get_uri(t) : t \in g.classes})
        rows == [p \in 1 .. Len(keys) |-> CHOOSE t \in g.classes : get_uri(t) = keys[p]]
    IN  IF order = "ascending" THEN rows ELSE Reversed(rows)

RECURSIVE ClassNamesLoop(_, _)
\* for row in qres: the names that start with 'http://' are appended
ClassNamesLoop(rows, names) ==
    IF rows = <<>> THEN names
    ELSE LET className == get_uri(Head(rows))
         IN  ClassNamesLoop(Tail(rows),
                            IF StartsWithHttp(className) THEN Append(names, className)
                            ELSE names)

RECURSIVE sorted(_)
\* sorted(list): every item of the list, in ascending order
sorted(list) ==
    IF list = <<>> THEN <<>>
    ELSE LET rest == sorted(Tail(list))
             k == Cardinality({p \in 1 .. Len(rest) : StrLess(rest[p], Head(list))})
         IN  SubSeq(rest, 1, k) \o <<Head(list)>> \o SubSeq(rest, k + 1, Len(rest))

\* KGClassNamesIn without the call of sorted
KGClassNamesIn_Unsorted(g, order) == ClassNamesLoop(ClassRows(g, order), <<>>)

\* the list get_KG_classes stores, the rows iterated in the given order
KGClassNamesIn(g, order) == sorted(ClassNamesLoop(ClassRows(g, order), <<>>))

KGClassNames(g) == KGClassNamesIn(g, "ascending")

\* the rows of the rdfs:subClassOf query as (child, parent) names
SubClassOfRows(g) == {<<get_uri(e[1]), get_uri(e[2])>> : e \in g.subClassOf}

\* the rows of a query result in the order iterated
RowSeq(rows, order) ==
    LET keys == SortedSeq({r[1] \o r[2] : r \in rows})
        seq == [p \in 1 .. Len(keys) |-> CHOOSE r \in rows : r[1] \o r[2] = keys[p]]
    IN  IF order = "ascending" THEN seq ELSE Reversed(seq)

\* EncodeRow writing the cell (parent, child)
EncodeRow_Transposed(adj_mat, row, names, skip_reflexive) ==
    LET child == row[1]
        parent == row[2]
    IN  IF ~InList(child, names) THEN adj_mat
        ELSE IF ~InList(parent, names) THEN adj_mat
        ELSE IF skip_reflexive /\ ListIndex(names, child) = ListIndex(names, parent)
             THEN adj_mat
        ELSE [adj_mat EXCEPT ![ListIndex(names, parent)][ListIndex(names, child)] = 1]

\* the body of the loop over the rows: adj_mat[child_idx, parent_idx] = 1.0
\* when both names are in the list
EncodeRow(adj_mat, row, names, skip_reflexive) ==
    LET child == row[1]
        parent == row[2]
    IN  IF ~InList(child, names) THEN adj_mat
        ELSE IF ~InList(parent, names) THEN adj_mat
        ELSE IF skip_reflexive /\ ListIndex(names, child) = ListIndex(names, parent)
             THEN adj_mat
        ELSE [adj_mat EXCEPT ![ListIndex(names, child)][ListIndex(names, parent)] = 1]

RECURSIVE EncodeLoop(_, _, _, _)
\* for row in qres
EncodeLoop(adj_mat, rows, names, skip_reflexive) ==
    IF rows = <<>> THEN adj_mat
    ELSE EncodeLoop(EncodeRow(adj_mat, Head(rows), names, skip_reflexive),
                    Tail(rows), names, skip_reflexive)

\* EncodeRows without the test that skips the reflexive triples
EncodeRows_KeepReflexive(rows, names, skip_reflexive) ==
    EncodeLoop(torch_zeros(Len(names)), RowSeq(rows, "ascending"), names, FALSE)

\* the matrix build_asserted_class_hierarchy_adjacency_matrix stores; with
\* skip_reflexive, the matrix (b) of transitive_closure_3
EncodeRows(rows, names, skip_reflexive) ==
    EncodeLoop(torch_zeros(Len(names)), RowSeq(rows, "ascending"), names, skip_reflexive)

\* the matrix stored, the rows iterated in the given order
AssertedMatrixIn(g, names, order) ==
    EncodeLoop(torch_zeros(Len(names)), RowSeq(SubClassOfRows(g), order), names, FALSE)

AssertedMatrix(g, names) == EncodeRows(SubClassOfRows(g), names, FALSE)

(***************************************************************************)
(* transitive_closure_3: OWL reasoning, then transitive_closure_1.         *)
(* The reasoner (owlrl's DeductiveClosure.expand) is a library: it is      *)
(* taken to add every entailed rdfs:subClassOf triple among the named      *)
(* classes, that is the reflexive-transitive closure of the asserted       *)
(* triples between named declared classes.                                 *)
(***************************************************************************)
RECURSIVE TransitiveSet(_)
\* the least transitive set of pairs that contains E
TransitiveSet(E) ==
    LET joins == {pq \in E \X E : pq[1][2] = pq[2][1]}
        E2 == E \cup {<<pq[1][1], pq[2][2]>> : pq \in joins}
    IN  IF E2 = E THEN E ELSE TransitiveSet(E2)

\* dc.expand(kg)
Expand(g) ==
    LET named == {t \in g.classes : StartsWithHttp(get_uri(t))}
        among == {e \in g.subClassOf : e[1] \in named /\ e[2] \in named}
    IN  [classes |-> g.classes,
         subClassOf |-> g.subClassOf \cup TransitiveSet(among)
                                     \cup {<<t, t>> : t \in named}]

\* the matrix (b): adj_mat when the loop over the rows of the query ends
TC3AdjMat(g, names) == EncodeRows(SubClassOfRows(Expand(g)), names, TRUE)

transitive_closure_3(g, names) ==
    transitive_closure_1(TC3AdjMat(g, names), 0, 0, TRUE).tc

(***************************************************************************)
(* The reflexivity merge of include_reflexivity_in_adjacency_matrix.       *)
(***************************************************************************)
\* ReflexivityUnion without the clamp
ReflexivityUnion_NoClamp(matrix, C) == torch_add(matrix, torch_eye(C))

ReflexivityUnion(matrix, C) == torch_clamp(torch_add(matrix, torch_eye(C)))

(***************************************************************************)
(* The inputs.                                                             *)
(***************************************************************************)
RECURSIVE Combinations(_, _, _)
\* the sets of at most k numbers of lo .. hi
Combinations(lo, hi, k) ==
    IF k = 0 \/ lo > hi THEN {{}}
    ELSE {{}} \cup UNION {{{x} \cup T : T \in Combinations(x + 1, hi, k - 1)} :
                             x \in lo .. hi}

\* the sets of at most k pairs of members of the list ends
PairSets(ends, k) ==
    LET M == Len(ends)
        PairAt(c) == <<ends[(c \div M) + 1], ends[(c % M) + 1]>>
    IN  {{PairAt(c) : c \in T} : T \in Combinations(0, M * M - 1, k)}

\* the pairs an ontology of n named classes may assert: any two named
\* classes, and the anonymous class with itself or with the first class
FilePairs(n) ==
    (NamedClasses(n) \X NamedClasses(n))
        \cup {<<BlankNode, BlankNode>>}
        \cup {<<c, BlankNode>> : c \in NamedClasses(n) \cap NamedClasses(1)}
        \cup {<<BlankNode, c>> : c \in NamedClasses(n) \cap NamedClasses(1)}

\* the ontology files that declare n named classes and, with blank, an
\* anonymous class, and assert at most MaxEdges subClassOf triples
OntologyFilesOf(n, blank) ==
    LET pairs == RowSeq(FilePairs(n), "ascending")
    IN  [classes : {NamedClasses(n) \cup (IF blank THEN {BlankNode} ELSE {})},
         subClassOf : {{pairs[c] : c \in T} :
                          T \in Combinations(1, Len(pairs), MaxEdges)}]

\* the values given for transitive_closure_method: 4 is not a method
MethodValues == {0, 1, 2, 3, 4}

\* the values given for include_reflexivity, as Python compares them:
\* False == 0, True == 1, and 2 is neither
FlagValues == {0, 1, 2}

\* the binary NxN relations with at most MaxOnes 1s
Relations(N) ==
    {[i \in Idx(N) |-> [j \in Idx(N) |-> IF (i * N + j) \in T THEN 1 ELSE 0]] :
        T \in Combinations(0, N * N - 1, MaxOnes)}

(***************************************************************************)
(* The OCHAM object.  Init is the object when __init__ has set its fields  *)
(* and is about to call process_the_ontology.                              *)
(***************************************************************************)
ObjInit ==
    /\ \E n \in 0 .. MaxClasses, blank \in BOOLEAN : onto_file \in OntologyFilesOf(n, blank)
    /\ transitive_closure_method \in MethodValues
    /\ include_reflexivity \in FlagValues
    /\ kg = None
    /\ classNames = None
    /\ adjacency_matrix_asserted = None
    /\ adjacency_matrix_transitive_closure = None
    /\ result_matrix = None
    /\ pc = "process_the_ontology"

\* no object is constructed
ObjAbsent ==
    /\ onto_file = [classes |-> {}, subClassOf |-> {}]
    /\ transitive_closure_method = 0
    /\ include_reflexivity = 0
    /\ kg = None
    /\ classNames = None
    /\ adjacency_matrix_asserted = None
    /\ adjacency_matrix_transitive_closure = None
    /\ result_matrix = None
    /\ pc = "no object"

\* no closure function is called on its own
CallsAbsent ==
    /\ input = <<>>
    /\ calls = <<>>

\* no query is answered
NoAnswer == answer = None

\* process_the_ontology without the check of include_reflexivity
process_the_ontology_NoFlagCheck ==
    /\ pc = "process_the_ontology"
    /\ pc' = IF transitive_closure_method \notin {0, 1, 2, 3} THEN "ValueError"
             ELSE "instantiate_KG"
    /\ UNCHANGED <<onto_file, transitive_closure_method, include_reflexivity, kg,
                   classNames, adjacency_matrix_asserted,
                   adjacency_matrix_transitive_closure, result_matrix, callVars>>

\* the two checks that open process_the_ontology
process_the_ontology ==
    /\ pc = "process_the_ontology"
    /\ pc' = IF transitive_closure_method \notin {0, 1, 2, 3} THEN "ValueError"
             ELSE IF include_reflexivity \notin {1, 0} THEN "ValueError"
             ELSE "instantiate_KG"
    /\ UNCHANGED <<onto_file, transitive_closure_method, include_reflexivity, kg,
                   classNames, adjacency_matrix_asserted,
                   adjacency_matrix_transitive_closure, result_matrix, callVars>>

instantiate_KG ==
    /\ pc = "instantiate_KG"
    /\ kg' = Some(EmptyGraph)
    /\ pc' = "load_ontology"
    /\ UNCHANGED <<onto_file, transitive_closure_method, include_reflexivity,
                   classNames, adjacency_matrix_asserted,
                   adjacency_matrix_transitive_closure, result_matrix, callVars>>

load_ontology ==
    /\ pc = "load_ontology"
    /\ kg' = Some(GraphParse(kg[1], onto_file))
    /\ pc' = "get_KG_classes"
    /\ UNCHANGED <<onto_file, transitive_closure_method, include_reflexivity,
                   classNames, adjacency_matrix_asserted,
                   adjacency_matrix_transitive_closure, result_matrix, callVars>>

get_KG_classes ==
    /\ pc = "get_KG_classes"
    /\ \E order \in QueryOrders : classNames' = Some(KGClassNamesIn(kg[1], order))
    /\ pc' = "build_asserted_class_hierarchy_adjacency_matrix"
    /\ UNCHANGED <<onto_file, transitive_closure_method, include_reflexivity, kg,
                   adjacency_matrix_asserted, adjacency_matrix_transitive_closure,
                   result_matrix, callVars>>

\* what process_the_ontology calls once the closure step is over or skipped
AfterClosure ==
    IF include_reflexivity # 0 THEN "include_reflexivity_in_adjacency_matrix"
    ELSE "set_result_matrix"

build_asserted_class_hierarchy_adjacency_matrix ==
    /\ pc = "build_asserted_class_hierarchy_adjacency_matrix"
    /\ \E order \in QueryOrders :
           adjacency_matrix_asserted' = Some(AssertedMatrixIn(kg[1], classNames[1], order))
    /\ pc' = IF transitive_closure_method > 0
             THEN "build_class_hierarchy_transitive_closure_adjacency_matrix"
             ELSE AfterClosure
    /\ UNCHANGED <<onto_file, transitive_closure_method, include_reflexivity, kg,
                   classNames, adjacency_matrix_transitive_closure, result_matrix,
                   callVars>>

build_class_hierarchy_transitive_closure_adjacency_matrix ==
    /\ pc = "build_class_hierarchy_transitive_closure_adjacency_matrix"
    /\ LET adj_mat == adjacency_matrix_asserted[1]
       IN  \/ /\ transitive_closure_method = 1
              /\ adjacency_matrix_transitive_closure' =
                     Some(transitive_closure_1(adj_mat, 0, 0, TRUE).tc)
              /\ adjacency_matrix_asserted' = Some(TC1RelationAfter(adj_mat, 0, 0, TRUE))
              /\ kg' = kg
           \/ /\ transitive_closure_method = 2
              /\ adjacency_matrix_transitive_closure' =
                     Some(transitive_closure_2(adj_mat, "boolean_OR"))
              /\ adjacency_matrix_asserted' = Some(TC2RelationAfter(adj_mat, "boolean_OR"))
              /\ kg' = kg
           \/ /\ transitive_closure_method \notin {1, 2}
              /\ adjacency_matrix_transitive_closure' =
                     Some(transitive_closure_3(kg[1], classNames[1]))
              /\ UNCHANGED adjacency_matrix_asserted
              /\ kg' = Some(Expand(kg[1]))
    /\ pc' = AfterClosure
    /\ UNCHANGED <<onto_file, transitive_closure_method, include_reflexivity,
                   classNames, result_matrix, callVars>>

include_reflexivity_in_adjacency_matrix ==
    /\ pc = "include_reflexivity_in_adjacency_matrix"
    /\ LET C == Len(classNames[1])
       IN  \/ /\ transitive_closure_method = 0
              /\ adjacency_matrix_asserted' =
                     Some(ReflexivityUnion(adjacency_matrix_asserted[1], C))
              /\ UNCHANGED adjacency_matrix_transitive_closure
           \/ /\ transitive_closure_method # 0
              /\ adjacency_matrix_transitive_closure' =
                     Some(ReflexivityUnion(adjacency_matrix_transitive_closure[1], C))
              /\ UNCHANGED adjacency_matrix_asserted
    /\ pc' = "set_result_matrix"
    /\ UNCHANGED <<onto_file, transitive_closure_method, include_reflexivity, kg,
                   classNames, result_matrix, callVars>>

\* set_result_matrix designating the asserted matrix whatever the method
set_result_matrix_Asserted ==
    /\ pc = "set_result_matrix"
    /\ result_matrix' = adjacency_matrix_asserted
    /\ pc' = "constructed"
    /\ UNCHANGED <<onto_file, transitive_closure_method, include_reflexivity, kg,
                   classNames, adjacency_matrix_asserted,
                   adjacency_matrix_transitive_closure, callVars>>

set_result_matrix ==
    /\ pc = "set_result_matrix"
    /\ result_matrix' = IF transitive_closure_method = 0
                        THEN adjacency_matrix_asserted
                        ELSE adjacency_matrix_transitive_closure
    /\ pc' = "constructed"
    /\ UNCHANGED <<onto_file, transitive_closure_method, include_reflexivity, kg,
                   classNames, adjacency_matrix_asserted,
                   adjacency_matrix_transitive_closure, callVars>>

\* the result matrix and the class names, returned and left as they are
get_results ==
    /\ pc = "constructed"
    /\ UNCHANGED vars

(***************************************************************************)
(* The graph queries.  networkx is a library: a path or a cycle is the     *)
(* sequence of its nodes, all_simple_paths is taken to yield every simple  *)
(* path from the source to the target, depth first with the successors in  *)
(* the order of their indices, and simple_cycles to yield every simple     *)
(* cycle once, a self-loop as the cycle of one node.                       *)
(***************************************************************************)
\* nx_DiGraph with the edges the other way round
nx_DiGraph_Transposed(matrix) ==
    [nodes |-> Shape(matrix),
     adj |-> [u \in Idx(Shape(matrix)) |->
                 {v \in Idx(Shape(matrix)) : matrix[v][u] # 0}]]

\* nx.DiGraph(matrix.numpy()): the nodes 0 .. N-1 and an edge u -> v for
\* each nonzero cell (u, v)
nx_DiGraph(matrix) ==
    [nodes |-> Shape(matrix),
     adj |-> [u \in Idx(Shape(matrix)) |->
                 {v \in Idx(Shape(matrix)) : matrix[u][v] # 0}]]

SeqRange(seq) == {seq[p] : p \in 1 .. Len(seq)}

RECURSIVE SimplePathsFrom(_, _, _, _)
\* the simple paths to target that extend visited by a successor >= child
SimplePathsFrom(G, visited, child, target) ==
    IF child >= G.nodes THEN <<>>
    ELSE LET here == IF child \notin G.adj[visited[Len(visited)]] THEN <<>>
                     ELSE IF child \in SeqRange(visited) THEN <<>>
                     ELSE IF child = target THEN <<Append(visited, child)>>
                     ELSE SimplePathsFrom(G, Append(visited, child), 0, target)
         IN  here \o SimplePathsFrom(G, visited, child + 1, target)

\* From a node to itself the library yields nothing or, in later releases,
\* the path of that node alone.
NetworkxReleases == {"no path to itself", "one-node path to itself"}

\* nx.all_simple_paths(G, source, target), as the list of the paths yielded
all_simple_paths(G, source, target, release) ==
    IF source = target
    THEN IF release = "one-node path to itself" THEN <<(<<source>>)>> ELSE <<>>
    ELSE SimplePathsFrom(G, <<source>>, 0, target)

RECURSIVE CyclesFrom(_, _, _)
\* the simple cycles that extend visited, whose first node is their least
CyclesFrom(G, visited, child) ==
    IF child >= G.nodes THEN <<>>
    ELSE LET here == IF child \notin G.adj[visited[Len(visited)]] THEN <<>>
                     ELSE IF child = visited[1] THEN <<visited>>
                     ELSE IF child < visited[1] \/ child \in SeqRange(visited) THEN <<>>
                     ELSE CyclesFrom(G, Append(visited, child), 0)
         IN  here \o CyclesFrom(G, visited, child + 1)

RECURSIVE CyclesOfNodes(_, _)
CyclesOfNodes(G, start) ==
    IF start >= G.nodes THEN <<>>
    ELSE CyclesFrom(G, <<start>>, 0) \o CyclesOfNodes(G, start + 1)

\* nx.simple_cycles(G), as the list of the cycles yielded
simple_cycles(G) == CyclesOfNodes(G, 0)

\* PathLength counting the nodes
PathLength_Nodes(path) == Len(path)

\* length = len(path) - 1
PathLength(path) == Len(path) - 1

\* a path as long as the longest found so far replaces it too
IsLonger_OrEqual(length, max_length) == length >= max_length

\* if length > max_length
IsLonger(length, max_length) == length > max_length

RECURSIVE ForPaths(_, _)
\* for path in paths: a longer path replaces the longest found so far
ForPaths(paths, best) ==
    IF paths = <<>> THEN best
    ELSE LET path == Head(paths)
             length == PathLength(path)
         IN  ForPaths(Tail(paths),
                      IF IsLonger(length, best.max_length)
                      THEN [a_longest_path_indices |-> Some(path), max_length |-> length]
                      ELSE best)

RECURSIVE ForSources(_, _, _, _, _)
\* for source_node in start_nodes
ForSources(G, start_nodes, target_node, release, best) ==
    IF start_nodes = <<>> THEN best
    ELSE ForSources(G, Tail(start_nodes), target_node, release,
                    ForPaths(all_simple_paths(G, Head(start_nodes), target_node, release),
                             best))

\* returns a_longest_path_names, a_longest_path_indices, max_length
find_longest_path(matrix, names, source_classNames, target_className, release) ==
    LET G == nx_DiGraph(matrix)
        start_nodes == [p \in 1 .. Len(source_classNames) |->
                           ListIndex(names, source_classNames[p])]
        target_node == ListIndex(names, target_className)
        best == ForSources(G, start_nodes, target_node, release,
                           [a_longest_path_indices |-> None, max_length |-> 0])
        path == best.a_longest_path_indices
    IN  [a_longest_path_names |->
             IF path # None
             THEN [p \in 1 .. Len(path[1]) |-> ListAt(names, path[1][p])]
             ELSE <<>>,
         a_longest_path_indices |-> path,
         max_length |-> best.max_length]

\* find_simple_cycles on the graph without its self-loops
find_simple_cycles_NoSelfLoops(matrix) ==
    simple_cycles(nx_DiGraph([i \in DOMAIN matrix |->
                                 [j \in DOMAIN matrix |->
                                     IF i = j THEN 0 ELSE matrix[i][j]]]))

\* returns the cycles of the graph of the matrix
find_simple_cycles(matrix) == simple_cycles(nx_DiGraph(matrix))

\* what a query returns, or the exception it raises
Returned(longest, cycles) == [raised |-> "", longest |-> longest, cycles |-> cycles]
Raised(exception) == [raised |-> exception, longest |-> <<>>, cycles |-> <<>>]

get_longest_path_NoEmptyCheck(source_classNames, target_className) ==
    /\ pc = "constructed"
    /\ \E release \in NetworkxReleases :
           answer' =
               Some([query |-> "get_longest_path",
                     source_classNames |-> source_classNames,
                     target_className |-> target_className,
                     ret |-> IF \E p \in 1 .. Len(source_classNames) :
                                   ~InList(source_classNames[p], classNames[1])
                             THEN Raised("ValueError")
                             ELSE IF target_className = None THEN Raised("ValueError")
                             ELSE IF ~InList(target_className, classNames[1])
                                  THEN Raised("ValueError")
                             ELSE Returned(<<find_longest_path(result_matrix[1], classNames[1],
                                                               source_classNames,
                                                               target_className, release)>>,
                                           <<>>)])
    /\ UNCHANGED <<objVars, input, calls>>

get_longest_path(source_classNames, target_className) ==
    /\ pc = "constructed"
    /\ \E release \in NetworkxReleases :
           answer' =
               Some([query |-> "get_longest_path",
                     source_classNames |-> source_classNames,
                     target_className |-> target_className,
                     ret |-> IF Len(source_classNames) = 0 THEN Raised("ValueError")
                             ELSE IF \E p \in 1 .. Len(source_classNames) :
                                        ~InList(source_classNames[p], classNames[1])
                                  THEN Raised("ValueError")
                             ELSE IF target_className = None THEN Raised("ValueError")
                             ELSE IF ~InList(target_className, classNames[1])
                                  THEN Raised("ValueError")
                             ELSE Returned(<<find_longest_path(result_matrix[1], classNames[1],
                                                               source_classNames,
                                                               target_className, release)>>,
                                           <<>>)])
    /\ UNCHANGED <<objVars, input, calls>>

get_simple_cycles ==
    /\ pc = "constructed"
    /\ answer' = Some([query |-> "get_simple_cycles",
                       source_classNames |-> <<>>,
                       target_className |-> <<>>,
                       ret |-> Returned(<<>>, find_simple_cycles(result_matrix[1]))])
    /\ UNCHANGED <<objVars, input, calls>>

\* the longest path from any class to the last class of the list
LongestPathFromAll ==
    /\ pc = "constructed"
    /\ classNames[1] # <<>>
    /\ get_longest_path(classNames[1], classNames[1][Len(classNames[1])])

\* a class name that no ontology file declares
UnknownName == <<"http://", "x">>

\* argument pairs that get_longest_path rejects, one for each of its checks
InvalidArguments(names) ==
    IF names = <<>>
    THEN {<< <<>>, None >>, << <<UnknownName>>, UnknownName >>}
    ELSE {<< <<>>, names[Len(names)] >>,
          << <<names[1], UnknownName>>, names[Len(names)] >>,
          << <<names[1]>>, None >>,
          << <<names[1]>>, UnknownName >>}

InvalidLongestPathCalls ==
    /\ pc = "constructed"
    /\ \E arguments \in InvalidArguments(classNames[1]) :
           get_longest_path(arguments[1], arguments[2])

Init == ObjInit /\ CallsAbsent /\ NoAnswer

Next ==
    \/ process_the_ontology
    \/ instantiate_KG
    \/ load_ontology
    \/ get_KG_classes
    \/ build_asserted_class_hierarchy_adjacency_matrix
    \/ build_class_hierarchy_transitive_closure_adjacency_matrix
    \/ include_reflexivity_in_adjacency_matrix
    \/ set_result_matrix
    \/ get_results
    \/ LongestPathFromAll
    \/ get_simple_cycles

Spec == Init /\ [][Next]_vars

(***************************************************************************)
(* The queries on the object: as its first query, every list of at most    *)
(* MaxSources source classes and every target class, on the objects        *)
(* constructed without reflexivity, with or without the closure by method  *)
(* 1, from the ontologies of named classes and from the chains of up to    *)
(* MaxChain classes.                                                       *)
(***************************************************************************)
\* the ontology files that declare n named classes and assert subClassOf
\* triples between them
QueryFilesOf(n) ==
    [classes : {NamedClasses(n)},
     subClassOf : PairSets(SortedSeq(NamedClasses(n)), MaxEdges)]

\* the chain of n classes, each a subclass of the next
ChainFile(n) ==
    [classes |-> NamedClasses(n),
     subClassOf |-> {<<(<<"http://", LocalParts[k]>>), (<<"http://", LocalParts[k + 1]>>)>> :
                        k \in 1 .. (n - 1)}]

\* the lists of at most MaxSources different names of the list
SourceLists(names) ==
    {s \in UNION {[1 .. k -> SeqRange(names)] : k \in 1 .. MaxSources} :
        \A p \in 1 .. Len(s) : \A q \in 1 .. Len(s) : p # q => s[p] # s[q]}

\* the configurations queried: no closure and the closure by method 1,
\* both without reflexivity
QueryConfigurations == {<<0, 0>>, <<1, 0>>}

QueryInit ==
    /\ \/ \E n \in 0 .. MaxClasses : onto_file \in QueryFilesOf(n)
       \/ \E n \in 2 .. MaxChain : onto_file = ChainFile(n)
    /\ \E configuration \in QueryConfigurations :
           /\ transitive_closure_method = configuration[1]
           /\ include_reflexivity = configuration[2]
    /\ kg = None
    /\ classNames = None
    /\ adjacency_matrix_asserted = None
    /\ adjacency_matrix_transitive_closure = None
    /\ result_matrix = None
    /\ pc = "process_the_ontology"
    /\ CallsAbsent
    /\ NoAnswer

LongestPathQueries ==
    /\ pc = "constructed"
    /\ answer = None
    /\ \E source_classNames \in SourceLists(classNames[1]) :
           \E target_className \in SeqRange(classNames[1]) :
               get_longest_path(source_classNames, target_className)

QueryNext ==
    \/ process_the_ontology
    \/ instantiate_KG
    \/ load_ontology
    \/ get_KG_classes
    \/ build_asserted_class_hierarchy_adjacency_matrix
    \/ build_class_hierarchy_transitive_closure_adjacency_matrix
    \/ set_result_matrix
    \/ get_results
    \/ LongestPathQueries
    \/ get_simple_cycles

SpecQuery == QueryInit /\ [][QueryNext]_vars

(***************************************************************************)
(* The same objects queried again and again, get_longest_path with         *)
(* arguments it rejects among the calls.                                   *)
(***************************************************************************)
RejectedNext ==
    \/ process_the_ontology
    \/ instantiate_KG
    \/ load_ontology
    \/ get_KG_classes
    \/ build_asserted_class_hierarchy_adjacency_matrix
    \/ build_class_hierarchy_transitive_closure_adjacency_matrix
    \/ set_result_matrix
    \/ get_results
    \/ InvalidLongestPathCalls
    \/ LongestPathFromAll
    \/ get_simple_cycles

SpecRejected == QueryInit /\ [][RejectedNext]_vars

(***************************************************************************)
(* The closure functions and the reflexivity merge called on their own:    *)
(* on a relation, and once more on what the first call returned.           *)
(***************************************************************************)
\* the argument of the next call of fn, which is made first or after one
\* call of fn
CanCall(fn) == calls = <<>> \/ (Len(calls) = 1 /\ calls[1].fn = fn)
NextArg == IF calls = <<>> THEN input ELSE calls[Len(calls)].ret

Call_transitive_closure_1 ==
    /\ pc = "no object"
    /\ CanCall("transitive_closure_1")
    /\ LET r == transitive_closure_1(NextArg, 0, 0, TRUE)
       IN  calls' = Append(calls, [fn |-> "transitive_closure_1", arg |-> NextArg,
                                   ret |-> r.tc, alert |-> r.alert])
    /\ UNCHANGED <<objVars, input, answer>>

Call_transitive_closure_2 ==
    /\ pc = "no object"
    /\ CanCall("transitive_closure_2")
    /\ calls' = Append(calls, [fn |-> "transitive_closure_2", arg |-> NextArg,
                               ret |-> transitive_closure_2(NextArg, "boolean_OR"),
                               alert |-> FALSE])
    /\ UNCHANGED <<objVars, input, answer>>

\* transitive_closure_2 with the operation 'add_and_clamp'
Call_transitive_closure_2_add_and_clamp ==
    /\ pc = "no object"
    /\ CanCall("transitive_closure_2 add_and_clamp")
    /\ calls' = Append(calls, [fn |-> "transitive_closure_2 add_and_clamp",
                               arg |-> NextArg,
                               ret |-> transitive_closure_2(NextArg, "add_and_clamp"),
                               alert |-> FALSE])
    /\ UNCHANGED <<objVars, input, answer>>

Call_reflexivity_union ==
    /\ pc = "no object"
    /\ CanCall("reflexivity_union")
    /\ calls' = Append(calls, [fn |-> "reflexivity_union", arg |-> NextArg,
                               ret |-> ReflexivityUnion(NextArg, Shape(NextArg)),
                               alert |-> FALSE])
    /\ UNCHANGED <<objVars, input, answer>>

ClosureInit ==
    /\ ObjAbsent
    /\ \E N \in 0 .. MaxN : input \in Relations(N)
    /\ calls = <<>>
    /\ NoAnswer

ClosureNext ==
    \/ Call_transitive_closure_1
    \/ Call_transitive_closure_2
    \/ Call_transitive_closure_2_add_and_clamp
    \/ Call_reflexivity_union

SpecClosure == ClosureInit /\ [][ClosureNext]_vars

(***************************************************************************)
(* transitive_closure_1 called on its own with each setting of             *)
(* extra_powers, patience and early_stopping_active.  The call records the *)
(* last power computed and whether the loop was left by the break.         *)
(***************************************************************************)
\* the binary NxN relations with at most MaxPowerOnes 1s
PowerRelations(N) ==
    {[i \in Idx(N) |-> [j \in Idx(N) |-> IF (i * N + j) \in T THEN 1 ELSE 0]] :
        T \in Combinations(0, N * N - 1, MaxPowerOnes)}

\* the settings given: extra_powers, patience, early_stopping_active.  The
\* patience is read only with early stopping, so without it the default is
\* given
TC1Settings ==
    {<<extra_powers, patience, TRUE>> :
         extra_powers \in 0 .. MaxExtraPowers, patience \in 0 .. MaxPatience}
        \cup {<<extra_powers, 0, FALSE>> : extra_powers \in 0 .. MaxExtraPowers}

\* the call of transitive_closure_1 on a relation with a setting, and what
\* it returns
TC1SettingsCall(relation, setting) ==
    LET s == TC1Final(relation, setting[1], setting[2], setting[3])
    IN  [fn |-> "transitive_closure_1 settings",
         arg |-> relation,
         extra_powers |-> setting[1],
         patience |-> setting[2],
         early_stopping_active |-> setting[3],
         ret |-> transitive_closure_1(relation, setting[1], setting[2], setting[3]).tc,
         alert |-> s.alert,
         idx |-> s.idx,
         we_can_stop |-> s.we_can_stop]

Call_transitive_closure_1_settings ==
    /\ pc = "no object"
    /\ calls = <<>>
    /\ \E setting \in TC1Settings : calls' = <<TC1SettingsCall(input, setting)>>
    /\ UNCHANGED <<objVars, input, answer>>

PowersInit ==
    /\ ObjAbsent
    /\ \E N \in 0 .. MaxPowerN : input \in PowerRelations(N)
    /\ calls = <<>>
    /\ NoAnswer

PowersNext == Call_transitive_closure_1_settings

SpecPowers == PowersInit /\ [][PowersNext]_vars

(***************************************************************************)
(* The object and the functions called on their own, side by side: a       *)
(* behavior is one of Spec or one of SpecClosure.                          *)
(***************************************************************************)
AllInit == Init \/ ClosureInit

AllNext == Next \/ ClosureNext

SpecAll == AllInit /\ [][AllNext]_vars

(***************************************************************************)
(* What the claims speak of: paths and cycles of a relation, stated on     *)
(* the set of its edges and not by either closure algorithm.               *)
(***************************************************************************)
EdgesOf(m) == {p \in (DOMAIN m) \X (DOMAIN m) : m[p[1]][p[2]] # 0}

\* there is a path of one or more edges of m from i to j
HasPath(m, i, j) == <<i, j>> \in TransitiveSet(EdgesOf(m))

\* the Closure Relation of m
ClosureRelation(m) ==
    LET paths == TransitiveSet(EdgesOf(m))
    IN  [i \in DOMAIN m |-> [j \in DOMAIN m |-> IF <<i, j>> \in paths THEN 1 ELSE 0]]

\* i lies on a directed cycle of m (a self-loop is one)
OnCycle(m, i) == HasPath(m, i, i)

\* m has no directed cycle and no self-loop
Acyclic(m) == \A i \in DOMAIN m : ~OnCycle(m, i)

IsBinary(m) == \A i \in DOMAIN m : \A j \in DOMAIN m : m[i][j] \in {0, 1}

\* the first call, and the second, are calls of fn
Called(fn) == calls # <<>> /\ calls[1].fn = fn
CalledTwice(fn) == Len(calls) = 2 /\ calls[1].fn = fn /\ calls[2].fn = fn

(***************************************************************************)
(* C1.  Closure method 1 as the engine runs it (patience 0, extra_powers   *)
(* 0, early stopping active) returns the Closure Relation of every binary  *)
(* relation: cell (i,j) is 1 iff a path of one or more edges leads from i  *)
(* to j, a cycle through i when i = j.                                     *)
(* Violated: the loop stops at power N-1, and a cycle through all N        *)
(* entities closes only at power N (the 2-cycle on two entities).          *)
(***************************************************************************)
C1_Method1ReturnsClosureRelation ==
    Called("transitive_closure_1") => calls[1].ret = ClosureRelation(input)

(***************************************************************************)
(* C2.  Closure method 2 (boolean_OR) returns exactly the transitive       *)
(* closure of every binary relation, cyclic or not, with or without        *)
(* self-loops.                                                             *)
(***************************************************************************)
C2_WarshallReturnsClosureRelation ==
    Called("transitive_closure_2") => calls[1].ret = ClosureRelation(input)

\* method 2 has closed a relation with a cycle of two or more entities and
\* a self-loop, adding cells to it
C2_Witness ==
    /\ Called("transitive_closure_2")
    /\ \E i \in DOMAIN input : input[i][i] = 1
    /\ \E i \in DOMAIN input : input[i][i] = 0 /\ OnCycle(input, i)
    /\ calls[1].ret # input

(***************************************************************************)
(* C3.  On every acyclic binary relation (no directed cycle, no self-loop) *)
(* on which method 1 raises no alert, methods 1 and 2 return the same      *)
(* matrix.                                                                 *)
(***************************************************************************)
C3_AcyclicMethods1And2Agree ==
    (Called("transitive_closure_1") /\ Acyclic(input) /\ ~calls[1].alert)
        => calls[1].ret = transitive_closure_2(input, "boolean_OR")

\* method 1 has closed an acyclic relation with a path of two edges
C3_Witness ==
    /\ Called("transitive_closure_1")
    /\ Acyclic(input)
    /\ ~calls[1].alert
    /\ calls[1].ret # input

(***************************************************************************)
(* C4.  On every binary relation, cyclic ones included, on which method 1  *)
(* returns alert = false, method 2 returns the same matrix as method 1.    *)
(* Violated on the cyclic relations of C1.                                 *)
(***************************************************************************)
C4_Methods1And2AgreeWithoutAlert ==
    (Called("transitive_closure_1") /\ ~calls[1].alert)
        => calls[1].ret = transitive_closure_2(input, "boolean_OR")

\* the closure matrix holds what the closure method returned: the merge is
\* still to come, or is not asked for
ClosureAsReturned ==
    /\ transitive_closure_method \in {1, 2, 3}
    /\ \/ pc = "include_reflexivity_in_adjacency_matrix"
       \/ include_reflexivity = 0 /\ pc \in {"set_result_matrix", "constructed"}

(***************************************************************************)
(* C5.  With closure requested by method 1, 2 or 3 and reflexivity         *)
(* disabled, every entity on a directed cycle of asserted edges has a 1 on *)
(* the diagonal of the closure matrix (for X -> Y, Y -> X: (X,X) and       *)
(* (Y,Y) as well as (X,Y) and (Y,X)).                                      *)
(* Violated by methods 1 and 3 on the 2-cycle of a two-class ontology, and *)
(* by method 3 on an asserted self-loop.                                   *)
(***************************************************************************)
C5_CyclesSetTheDiagonal ==
    (ClosureAsReturned /\ include_reflexivity = 0) =>
        \A i \in DOMAIN adjacency_matrix_asserted[1] :
            OnCycle(adjacency_matrix_asserted[1], i)
                => adjacency_matrix_transitive_closure[1][i][i] = 1

(***************************************************************************)
(* C6.  Closure is idempotent: method 1 applied to what method 1 returned  *)
(* returns it unchanged, and likewise method 2.                            *)
(* Violated by method 1 on the 3-cycle: the first call returns the         *)
(* off-diagonal cells only, the second fills the diagonal.                 *)
(***************************************************************************)
C6_ClosureIdempotent ==
    (CalledTwice("transitive_closure_1") \/ CalledTwice("transitive_closure_2"))
        => calls[2].ret = calls[1].ret

(***************************************************************************)
(* C7.  Method 3 produces the same closure matrix as methods 1 and 2 on    *)
(* the same ontology, self-loops and cycles included.                      *)
(* Violated: on the 2-cycle of a two-class ontology method 3 (like method  *)
(* 1) leaves the diagonal 0 and method 2 sets it; on an asserted self-loop *)
(* method 3 drops the diagonal 1 that methods 1 and 2 keep.                *)
(***************************************************************************)
C7_Method3AgreesWithMethods1And2 ==
    (ClosureAsReturned /\ transitive_closure_method = 3) =>
        /\ adjacency_matrix_transitive_closure[1]
               = transitive_closure_1(adjacency_matrix_asserted[1], 0, 0, TRUE).tc
        /\ adjacency_matrix_transitive_closure[1]
               = transitive_closure_2(adjacency_matrix_asserted[1], "boolean_OR")

\* the matrix (b) of method 3, read off the saturated store
MatrixB == EncodeRows(SubClassOfRows(kg[1]), classNames[1], TRUE)

(***************************************************************************)
(* C8.  In method 3 the matrix (b) built from the saturated store has an   *)
(* all-zero diagonal; the returned matrix (d) agrees with (b) on every     *)
(* off-diagonal cell; and when the asserted graph has no cycles, (d) is    *)
(* (b).                                                                    *)
(***************************************************************************)
C8_Method3MatrixBAndD ==
    (ClosureAsReturned /\ transitive_closure_method = 3) =>
        LET d == adjacency_matrix_transitive_closure[1]
            b == MatrixB
        IN  /\ \A i \in DOMAIN b : b[i][i] = 0
            /\ \A i \in DOMAIN b : \A j \in DOMAIN b : i # j => d[i][j] = b[i][j]
            /\ Acyclic(adjacency_matrix_asserted[1]) => d = b

\* method 3 has run on an acyclic ontology in which the reasoner entails an
\* edge that is not asserted
C8_Witness ==
    /\ ClosureAsReturned
    /\ transitive_closure_method = 3
    /\ Acyclic(adjacency_matrix_asserted[1])
    /\ MatrixB # adjacency_matrix_asserted[1]
    /\ adjacency_matrix_transitive_closure[1] = MatrixB

(***************************************************************************)
(* C9.  The reflexivity merge of a binary matrix R yields R' with          *)
(* R'[i,i] = 1 for every i and R'[i,j] = R[i,j] for every i # j, also when *)
(* some diagonal entries of R are 1 already; a second merge changes        *)
(* nothing.                                                                *)
(***************************************************************************)
C9_ReflexivityMerge ==
    /\ Called("reflexivity_union") =>
          \A i \in DOMAIN input : \A j \in DOMAIN input :
              calls[1].ret[i][j] = IF i = j THEN 1 ELSE input[i][j]
    /\ CalledTwice("reflexivity_union") => calls[2].ret = calls[1].ret

\* merged twice, a matrix with a 1 and a 0 on its diagonal and a 1 off it
C9_Witness ==
    /\ CalledTwice("reflexivity_union")
    /\ \E i \in DOMAIN input : input[i][i] = 1
    /\ \E i \in DOMAIN input : input[i][i] = 0
    /\ \E i \in DOMAIN input : \E j \in DOMAIN input : i # j /\ input[i][j] = 1

\* the graph, the class names and the asserted matrix of the ontology file
FileGraph == GraphParse(EmptyGraph, onto_file)
FileClassNames == KGClassNames(FileGraph)
FileAsserted == AssertedMatrix(FileGraph, FileClassNames)

\* the closure matrix of the method chosen
FileClosure ==
    CASE transitive_closure_method = 1 ->
             transitive_closure_1(FileAsserted, 0, 0, TRUE).tc
      [] transitive_closure_method = 2 ->
             transitive_closure_2(FileAsserted, "boolean_OR")
      [] transitive_closure_method = 3 ->
             transitive_closure_3(FileGraph, FileClassNames)

\* m unioned with the identity
WithIdentity(m) == [i \in DOMAIN m |-> [j \in DOMAIN m |-> IF i = j THEN 1 ELSE m[i][j]]]

\* the Result Relation as the configuration asks for it
FileResult ==
    LET base == IF transitive_closure_method = 0 THEN FileAsserted ELSE FileClosure
    IN  IF include_reflexivity = 1 THEN WithIdentity(base) ELSE base

C10_Result ==
    /\ pc = "constructed" => result_matrix = Some(FileResult)
    /\ transitive_closure_method = 0 => adjacency_matrix_transitive_closure = None

C10_Step ==
    /\ result_matrix # None => result_matrix' = result_matrix
    /\ (pc = "include_reflexivity_in_adjacency_matrix" /\ pc' # pc) =>
           /\ include_reflexivity = 1
           /\ transitive_closure_method # 0 => adjacency_matrix_transitive_closure # None
           /\ result_matrix = None /\ result_matrix' = None
    /\ (adjacency_matrix_transitive_closure = None
            /\ adjacency_matrix_transitive_closure' # None) =>
           /\ pc' \in {"include_reflexivity_in_adjacency_matrix", "set_result_matrix"}
           /\ result_matrix' = None

(***************************************************************************)
(* C10.  When initialization completes, the Result Relation is the         *)
(* asserted matrix when closure_method is 0 (and no closure matrix is ever *)
(* created) and the closure matrix of the chosen method when it is 1, 2 or *)
(* 3, unioned with the identity exactly when include_reflexivity is true;  *)
(* the reflexivity union is applied after the closure computation and      *)
(* before the result is designated, and the result is never reassigned.    *)
(***************************************************************************)
C10_ResultDesignation == [](C10_Result) /\ [][C10_Step]_vars

\* constructed with method 3 and reflexivity, on classes with an edge between
\* two of them and a class the closure leaves off the diagonal
C10_Witness ==
    /\ pc = "constructed"
    /\ transitive_closure_method = 3
    /\ include_reflexivity = 1
    /\ result_matrix # adjacency_matrix_asserted
    /\ \E i \in DOMAIN FileClosure : FileClosure[i][i] = 0
    /\ \E i \in DOMAIN FileClosure : \E j \in DOMAIN FileClosure :
           i # j /\ FileClosure[i][j] = 1

(***************************************************************************)
(* C11.  As claimed: once built, the stored asserted matrix keeps its      *)
(* value through every later step of initialization and every query, for   *)
(* every configuration.                                                    *)
(***************************************************************************)
C11_AssertedNeverReplaced ==
    [][adjacency_matrix_asserted # None =>
           adjacency_matrix_asserted' = adjacency_matrix_asserted]_vars

\* the reflexivity merge of an object constructed without a closure
C11_MergeIntoAsserted ==
    /\ pc = "include_reflexivity_in_adjacency_matrix"
    /\ transitive_closure_method = 0
    /\ pc' # pc

C11_State ==
    (adjacency_matrix_asserted # None
        /\ ~(transitive_closure_method = 0 /\ pc \in {"set_result_matrix", "constructed"}
               /\ include_reflexivity = 1))
    => adjacency_matrix_asserted = Some(FileAsserted)

C11_Step ==
    adjacency_matrix_asserted # None =>
        IF C11_MergeIntoAsserted
        THEN adjacency_matrix_asserted' = Some(WithIdentity(adjacency_matrix_asserted[1]))
        ELSE adjacency_matrix_asserted' = adjacency_matrix_asserted

\* C11, amended: once built, the stored asserted matrix is the matrix built
\* from the input edges and keeps that value through the closure by method
\* 1, 2 or 3 (transitive_closure_1 and transitive_closure_2 do not write to
\* the matrix they are given), the result designation and every query; the
\* reflexivity merge leaves it alone when a closure was computed, and with
\* closure method 0 replaces it by its union with the identity.
C11_AssertedKept == [](C11_State) /\ [][C11_Step]_vars

\* constructed with the closure by method 1 and reflexivity, the closure
\* differing from the asserted matrix, and a query answered
C11_Witness ==
    /\ pc = "constructed"
    /\ transitive_closure_method = 1
    /\ include_reflexivity = 1
    /\ adjacency_matrix_asserted = Some(FileAsserted)
    /\ adjacency_matrix_transitive_closure # adjacency_matrix_asserted
    /\ count_nonzero(FileAsserted) > 0
    /\ answer # None

(***************************************************************************)
(* C12.  Every matrix the object stores or returns has all its cells in    *)
(* {0, 1}, whatever the configuration and the ontology; and                *)
(* transitive_closure_1 and transitive_closure_2, with either operation,   *)
(* return a matrix with all cells in {0, 1} for every binary relation.     *)
(***************************************************************************)
C12_Binary ==
    /\ \A field \in {adjacency_matrix_asserted, adjacency_matrix_transitive_closure,
                     result_matrix} :
           field # None => IsBinary(field[1])
    /\ \A k \in 1 .. Len(calls) :
           (calls[k].fn # "reflexivity_union" /\ IsBinary(calls[k].arg))
               => IsBinary(calls[k].ret)

\* the add_and_clamp variant called on a relation with a cycle, where its
\* sums exceed 1 before the clamp
C12_Witness ==
    /\ Called("transitive_closure_2 add_and_clamp")
    /\ ~Acyclic(input)
    /\ ~IsBinary(TC2ForCol(input, 0, Shape(input), "add_and_clamp"))
    /\ IsBinary(calls[1].ret)

(***************************************************************************)
(* C13.  The asserted matrix as build_asserted_class_hierarchy_adjacency_  *)
(* matrix stores it is CxC for the C names of the catalog (0x0 for none),  *)
(* and its cell (i, j) is 1 if and only if the edge list holds the pair    *)
(* (classNames[i], classNames[j]); an edge with an endpoint that is not in *)
(* the catalog changes no cell and raises no error, and an edge met again  *)
(* leaves the matrix as it is.                                             *)
(***************************************************************************)
\* the stored asserted matrix is the matrix the builder stored
C13_AsBuilt ==
    /\ adjacency_matrix_asserted # None
    /\ ~(transitive_closure_method = 0 /\ include_reflexivity = 1
           /\ pc \in {"set_result_matrix", "constructed"})

C13_AssertedMatrix ==
    C13_AsBuilt =>
        LET A == adjacency_matrix_asserted[1]
            names == classNames[1]
            C == Len(names)
            absent(e) == ~InList(e[1], names) \/ ~InList(e[2], names)
        IN  /\ DOMAIN A = Idx(C)
            /\ \A i \in Idx(C) : DOMAIN A[i] = Idx(C)
            /\ \A i \in Idx(C) : \A j \in Idx(C) :
                   A[i][j] = IF <<names[i + 1], names[j + 1]>> \in onto_file.subClassOf
                             THEN 1 ELSE 0
            /\ \A e \in onto_file.subClassOf :
                   /\ absent(e) => EncodeRow(torch_zeros(C), e, names, FALSE) = torch_zeros(C)
                   /\ EncodeRow(A, e, names, FALSE) = A
            /\ pc # "build_asserted_class_hierarchy_adjacency_matrix"

\* built from two edges, one between two classes of the catalog and one
\* with an endpoint that is not in the catalog
C13_Witness ==
    /\ C13_AsBuilt
    /\ Len(classNames[1]) >= 2
    /\ Cardinality(onto_file.subClassOf) = 2
    /\ \E e \in onto_file.subClassOf : ~InList(e[2], classNames[1])
    /\ count_nonzero(adjacency_matrix_asserted[1]) = 1
    /\ \E i \in DOMAIN adjacency_matrix_asserted[1] :
           \E j \in DOMAIN adjacency_matrix_asserted[1] :
               i # j /\ adjacency_matrix_asserted[1][i][j] = 1

(***************************************************************************)
(* C14.  The catalog get_KG_classes stores holds exactly the raw names     *)
(* that start with 'http://', each once, in strictly ascending order, so   *)
(* that the position in the list is a bijection between the names and      *)
(* 0 .. C-1; the same set of raw names gives the same list in whatever     *)
(* order the names are met.                                                *)
(***************************************************************************)
C14_Catalog ==
    classNames # None =>
        LET names == classNames[1]
            passing == {c \in onto_file.classes : c # <<>> /\ c[1] = "http://"}
        IN  /\ SeqRange(names) = passing
            /\ Len(names) = Cardinality(passing)
            /\ \A p \in 1 .. Len(names) : \A q \in 1 .. Len(names) :
                   p < q => StrLess(names[p], names[q])
            /\ \A p \in 1 .. Len(names) : ListIndex(names, names[p]) = p - 1
            /\ pc = "build_asserted_class_hierarchy_adjacency_matrix" =>
                   \A order \in QueryOrders : KGClassNamesIn(kg[1], order) = names

\* a catalog of three names, from a file that also declares an anonymous class
C14_Witness ==
    /\ classNames # None
    /\ Len(classNames[1]) = 3
    /\ BlankNode \in onto_file.classes
    /\ ClassNamesLoop(ClassRows(kg[1], "descending"), <<>>) # classNames[1]

(***************************************************************************)
(* C20.  Constructing the object with a closure method outside             *)
(* {0, 1, 2, 3} or an include_reflexivity outside {True, False} raises     *)
(* ValueError as the first step of process_the_ontology: the triple store  *)
(* is not instantiated, and the catalog and the asserted, closure and      *)
(* result matrices stay None.  A valid configuration raises no error.      *)
(***************************************************************************)
C20_Invalid ==
    \/ transitive_closure_method \notin {0, 1, 2, 3}
    \/ include_reflexivity \notin {0, 1}

C20_State ==
    /\ C20_Invalid =>
           /\ pc \in {"process_the_ontology", "ValueError"}
           /\ kg = None
           /\ classNames = None
           /\ adjacency_matrix_asserted = None
           /\ adjacency_matrix_transitive_closure = None
           /\ result_matrix = None
           /\ answer = None
    /\ pc = "ValueError" => C20_Invalid

C20_Step ==
    /\ (C20_Invalid /\ pc = "process_the_ontology") => pc' = "ValueError"
    /\ pc = "ValueError" => UNCHANGED objVars

C20_ConfigurationError == [](C20_State) /\ [][C20_Step]_vars

\* the error raised for a valid closure method given with a flag that is
\* neither True nor False, on an ontology that asserts an edge
C20_Witness ==
    /\ pc = "ValueError"
    /\ transitive_closure_method = 2
    /\ include_reflexivity = 2
    /\ onto_file.subClassOf # {}
    /\ kg = None

(***************************************************************************)
(* What the query claims speak of: the simple paths of a relation, built   *)
(* edge by edge as a set and not by the depth-first enumeration.           *)
(***************************************************************************)
\* the paths of P extended by one edge of m to a node they do not hold
ExtendedByOne(m, P) ==
    UNION {{Append(p, v) : v \in {w \in DOMAIN m : m[p[Len(p)]][w] # 0
                                                   /\ w \notin SeqRange(p)}} :
              p \in P}

RECURSIVE SimplePathsFromSet(_, _)
\* the paths of P and all their extensions to simple paths
SimplePathsFromSet(m, P) ==
    IF P = {} THEN {} ELSE P \cup SimplePathsFromSet(m, ExtendedByOne(m, P))

\* the simple paths of one or more edges of m from a node of S to t
SimplePathsTo(m, S, t) ==
    {p \in SimplePathsFromSet(m, {<<s>> : s \in S}) : Len(p) >= 2 /\ p[Len(p)] = t}

\* the largest number of a set of numbers, 0 for the empty set
Largest(S) == IF S = {} THEN 0 ELSE CHOOSE x \in S : \A y \in S : y <= x

\* the last query was get_longest_path, which returned
LongestPathAnswered ==
    /\ answer # None
    /\ answer[1].query = "get_longest_path"
    /\ answer[1].ret.raised = ""

\* what it returned, and the nodes of its arguments
LongestPathReturned == answer[1].ret.longest[1]
SourceNodes == {ListIndex(classNames[1], name) : name \in SeqRange(answer[1].source_classNames)}
TargetNode == ListIndex(classNames[1], answer[1].target_className)

\* it returned the length 0, the empty list of names and no list of nodes
ReturnedNoPath ==
    /\ LongestPathReturned.max_length = 0
    /\ LongestPathReturned.a_longest_path_names = <<>>
    /\ LongestPathReturned.a_longest_path_indices = None

(***************************************************************************)
(* C15.  get_longest_path, given names of the catalog, returns the largest *)
(* number of edges of a simple path of the result matrix from a source to  *)
(* the target, which is at most C-1; when there is such a path, the path   *)
(* returned has no repeated node, starts at a source, ends at the target,  *)
(* follows edges of the result matrix and has that number of edges, and    *)
(* the names returned are the names of its nodes.                          *)
(***************************************************************************)
C15_LongestPath ==
    LongestPathAnswered =>
        LET R == result_matrix[1]
            names == classNames[1]
            ret == LongestPathReturned
            paths == SimplePathsTo(R, SourceNodes, TargetNode)
        IN  /\ ret.max_length = Largest({Len(p) - 1 : p \in paths})
            /\ ret.max_length <= Len(names) - 1
            /\ paths # {} =>
                   /\ ret.a_longest_path_indices # None
                   /\ LET path == ret.a_longest_path_indices[1]
                      IN  /\ Len(path) - 1 = ret.max_length
                          /\ path[1] \in SourceNodes
                          /\ path[Len(path)] = TargetNode
                          /\ \A p \in 1 .. Len(path) : \A q \in 1 .. Len(path) :
                                 p # q => path[p] # path[q]
                          /\ \A p \in 1 .. (Len(path) - 1) : R[path[p]][path[p + 1]] = 1
                          /\ Len(ret.a_longest_path_names) = Len(path)
                          /\ \A p \in 1 .. Len(path) :
                                 ret.a_longest_path_names[p] = names[path[p] + 1]

\* two sources given, the longest path starts at the second one and a
\* shorter path from a source to the target exists
C15_Witness ==
    /\ LongestPathAnswered
    /\ Len(answer[1].source_classNames) = 2
    /\ LongestPathReturned.max_length = 2
    /\ LongestPathReturned.a_longest_path_indices[1][1] =
           ListIndex(classNames[1], answer[1].source_classNames[2])
    /\ \E p \in SimplePathsTo(result_matrix[1], SourceNodes, TargetNode) : Len(p) = 2

(***************************************************************************)
(* C16.  As claimed: get_longest_path returns the length 0 with an empty   *)
(* path if and only if the result matrix has no directed path, of one or   *)
(* more edges, from a source to the target, also when the target is one    *)
(* of the sources.                                                         *)
(***************************************************************************)
C16_NoPathIffNoDirectedPath ==
    LongestPathAnswered =>
        LET reach == TransitiveSet(EdgesOf(result_matrix[1]))
        IN  ReturnedNoPath <=> ~\E s \in SourceNodes : <<s, TargetNode>> \in reach

\* C16, amended: get_longest_path returns the length 0 with an empty path
\* if and only if the result matrix has no directed path to the target
\* from a source other than the target, that is no simple path of one or
\* more edges; a source that is the target adds no path, with or without
\* a self-loop or a longer cycle through it.  Otherwise the length is 1 or
\* more and a path is returned.
C16_NoPathIffNoSimplePath ==
    LongestPathAnswered =>
        LET reach == TransitiveSet(EdgesOf(result_matrix[1]))
        IN  /\ ReturnedNoPath <=>
                   ~\E s \in SourceNodes \ {TargetNode} : <<s, TargetNode>> \in reach
            /\ ReturnedNoPath <=>
                   SimplePathsTo(result_matrix[1], SourceNodes, TargetNode) = {}
            /\ ReturnedNoPath \/ (/\ LongestPathReturned.max_length >= 1
                                  /\ LongestPathReturned.a_longest_path_indices # None
                                  /\ LongestPathReturned.a_longest_path_names # <<>>)

\* the target is the only source and has a self-loop
C16_Witness ==
    /\ LongestPathAnswered
    /\ SourceNodes = {TargetNode}
    /\ result_matrix[1][TargetNode][TargetNode] = 1
    /\ ReturnedNoPath

\* the last query was get_simple_cycles
CyclesAnswered == answer # None /\ answer[1].query = "get_simple_cycles"

\* the cycles it returned, in the order yielded
CyclesReturned == answer[1].ret.cycles

\* the node sequences that are a simple cycle of m, from each of its nodes
SimpleCyclesOf(m) ==
    {p \in SimplePathsFromSet(m, {<<s>> : s \in DOMAIN m}) : m[p[Len(p)]][p[1]] # 0}

\* c and d are the same cycle, started at different nodes
SameCycle(c, d) ==
    /\ Len(c) = Len(d)
    /\ \E shift \in 0 .. (Len(c) - 1) :
           \A p \in 1 .. Len(c) : d[p] = c[((p - 1 + shift) % Len(c)) + 1]

(***************************************************************************)
(* C17.  With include_reflexivity false, cell (i, i) of the result matrix  *)
(* is 1 if and only if get_simple_cycles reports the cycle [i]; every      *)
(* cycle reported is a simple cycle of the graph of the result matrix, and *)
(* every simple cycle of that graph is reported exactly once.              *)
(***************************************************************************)
C17_SimpleCycles ==
    CyclesAnswered =>
        LET R == result_matrix[1]
            cycles == CyclesReturned
        IN  /\ include_reflexivity = 0 =>
                   \A i \in DOMAIN R :
                       R[i][i] = 1 <=> \E k \in 1 .. Len(cycles) : cycles[k] = <<i>>
            /\ \A k \in 1 .. Len(cycles) :
                   /\ Len(cycles[k]) >= 1
                   /\ \A p \in 1 .. Len(cycles[k]) :
                          /\ cycles[k][p] \in DOMAIN R
                          /\ R[cycles[k][p]][cycles[k][(p % Len(cycles[k])) + 1]] = 1
                          /\ \A q \in 1 .. Len(cycles[k]) :
                                 p # q => cycles[k][p] # cycles[k][q]
            /\ \A c \in SimpleCyclesOf(R) :
                   Cardinality({k \in 1 .. Len(cycles) : SameCycle(cycles[k], c)}) = 1

\* without reflexivity: a self-loop, a node without one, and a cycle of
\* two nodes are in the result matrix
C17_Witness ==
    /\ CyclesAnswered
    /\ include_reflexivity = 0
    /\ \E i \in DOMAIN result_matrix[1] : result_matrix[1][i][i] = 1
    /\ \E i \in DOMAIN result_matrix[1] : result_matrix[1][i][i] = 0
    /\ \E k \in 1 .. Len(CyclesReturned) : Len(CyclesReturned[k]) = 2

(***************************************************************************)
(* C18.  For the ontology of one class X with the one edge X -> X, closure *)
(* method 1 and no reflexivity: the asserted matrix has exactly one 1, at  *)
(* (X, X), the closure has 1 at (X, X), and get_simple_cycles returns the  *)
(* one cycle [X].  For every ontology, a 1 on the diagonal of the asserted *)
(* matrix is a 1 of the closure by method 1 without reflexivity.           *)
(***************************************************************************)
\* one class, with a self-loop, closed by method 1 without reflexivity
C18_SingleSelfLoop ==
    /\ Cardinality(onto_file.classes) = 1
    /\ onto_file.subClassOf = {<<c, c>> : c \in onto_file.classes}
    /\ transitive_closure_method = 1
    /\ include_reflexivity = 0

C18_SelfLoopKept ==
    /\ (C18_SingleSelfLoop /\ adjacency_matrix_asserted # None) =>
           /\ count_nonzero(adjacency_matrix_asserted[1]) = 1
           /\ adjacency_matrix_asserted[1][0][0] = 1
    /\ (C18_SingleSelfLoop /\ adjacency_matrix_transitive_closure # None) =>
           adjacency_matrix_transitive_closure[1][0][0] = 1
    /\ (C18_SingleSelfLoop /\ CyclesAnswered) => CyclesReturned = <<(<<0>>)>>
    /\ (transitive_closure_method = 1 /\ include_reflexivity = 0
           /\ adjacency_matrix_transitive_closure # None) =>
           \A i \in DOMAIN adjacency_matrix_asserted[1] :
               adjacency_matrix_asserted[1][i][i] = 1 =>
                   adjacency_matrix_transitive_closure[1][i][i] = 1

\* the cycles of the one class with its self-loop are returned
C18_Witness ==
    /\ C18_SingleSelfLoop
    /\ CyclesAnswered
    /\ result_matrix = Some([i \in {0} |-> [j \in {0} |-> 1]])

(***************************************************************************)
(* C19.  For a chain e1 -> e2 -> ... -> en of n >= 2 classes, closure      *)
(* method 1 and no reflexivity: the asserted matrix has exactly n-1 ones,  *)
(* the closure has exactly n(n-1)/2 ones, the pairs with a path from the   *)
(* first to the second, the longest path from e1 to en has length n-1,     *)
(* and get_simple_cycles returns no cycle.                                 *)
(***************************************************************************)
\* the edges of m form one chain through all its nodes
IsChain(m) ==
    /\ Shape(m) >= 2
    /\ IsBinary(m)
    /\ count_nonzero(m) = Shape(m) - 1
    /\ \A i \in DOMAIN m : Cardinality({j \in DOMAIN m : m[i][j] = 1}) <= 1
    /\ \A j \in DOMAIN m : Cardinality({i \in DOMAIN m : m[i][j] = 1}) <= 1
    /\ Acyclic(m)

\* the first and the last node of a chain
ChainFirst(m) == CHOOSE i \in DOMAIN m : \A j \in DOMAIN m : m[j][i] = 0
ChainLast(m) == CHOOSE i \in DOMAIN m : \A j \in DOMAIN m : m[i][j] = 0

\* a chain, closed by method 1 without reflexivity
C19_ChainCase ==
    /\ transitive_closure_method = 1
    /\ include_reflexivity = 0
    /\ onto_file.subClassOf \subseteq (onto_file.classes \X onto_file.classes)
    /\ Cardinality(onto_file.subClassOf) + 1 = Cardinality(onto_file.classes)
    /\ IsChain(FileAsserted)

C19_Chain ==
    C19_ChainCase =>
        LET A == FileAsserted
            n == Shape(A)
        IN  /\ adjacency_matrix_asserted # None =>
                   count_nonzero(adjacency_matrix_asserted[1]) = n - 1
            /\ adjacency_matrix_transitive_closure # None =>
                   /\ 2 * count_nonzero(adjacency_matrix_transitive_closure[1]) = n * (n - 1)
                   /\ adjacency_matrix_transitive_closure[1] = ClosureRelation(A)
            /\ (LongestPathAnswered /\ SourceNodes = {ChainFirst(A)}
                   /\ TargetNode = ChainLast(A)) =>
                   /\ LongestPathReturned.max_length = n - 1
                   /\ Len(LongestPathReturned.a_longest_path_names) = n
            /\ CyclesAnswered => CyclesReturned = <<>>

\* the longest path of the chain of 5 classes, from its first class to its last
C19_Witness ==
    /\ C19_ChainCase
    /\ Shape(FileAsserted) = 5
    /\ LongestPathAnswered
    /\ SourceNodes = {ChainFirst(FileAsserted)}
    /\ TargetNode = ChainLast(FileAsserted)
    /\ LongestPathReturned.max_length = 4
    /\ count_nonzero(result_matrix[1]) = 10

(***************************************************************************)
(* C21: the arguments get_longest_path rejects                             *)
(***************************************************************************)

\* the arguments of the call answered are ones the checks of get_longest_path
\* reject
C21_InvalidArguments ==
    \/ Len(answer[1].source_classNames) = 0
    \/ \E p \in 1 .. Len(answer[1].source_classNames) :
           ~InList(answer[1].source_classNames[p], FileClassNames)
    \/ answer[1].target_className = None
    \/ ~InList(answer[1].target_className, FileClassNames)

\* the answers an engine constructed from the same file and configuration
\* gives to the query answered, before any other call
C21_FreshAnswers ==
    IF answer[1].query = "get_longest_path"
    THEN {Returned(<<find_longest_path(FileResult, FileClassNames,
                                       answer[1].source_classNames,
                                       answer[1].target_className, release)>>, <<>>) :
              release \in NetworkxReleases}
    ELSE IF answer[1].query = "get_simple_cycles"
    THEN {Returned(<<>>, find_simple_cycles(FileResult))}
    ELSE {Returned(<<>>, <<>>)}

C21_State ==
    answer # None =>
        IF answer[1].query = "get_longest_path" /\ C21_InvalidArguments
        THEN answer[1].ret = Raised("ValueError")
        ELSE answer[1].ret \in C21_FreshAnswers

C21_Step ==
    /\ answer' # answer => UNCHANGED objVars
    /\ (answer # None /\ answer[1].ret.raised # "") => pc' = "constructed"

\* C21: a get_longest_path call with no source, an unknown source, no target
\* or an unknown target raises ValueError with no path enumerated and changes
\* no field of the object, which stays constructed after it; the answer to a
\* valid query is always an answer of an engine just constructed from the
\* same file.
C21_InvalidQueryRejected == [](C21_State) /\ [][C21_Step]_vars

\* the call rejected for its unknown target, on a result matrix with an edge
C21_Witness ==
    /\ answer # None
    /\ answer[1].query = "get_longest_path"
    /\ answer[1].ret = Raised("ValueError")
    /\ answer[1].source_classNames # <<>>
    /\ InList(answer[1].source_classNames[1], classNames[1])
    /\ answer[1].target_className = UnknownName
    /\ count_nonzero(result_matrix[1]) > 0

(***************************************************************************)
(* C22: which of several longest paths is returned                         *)
(***************************************************************************)
RECURSIVE C22_PathsOfSources(_, _, _)
\* the paths of positive length in the order met: the sources as the caller
\* listed them, the paths of one source as all_simple_paths yields them
C22_PathsOfSources(G, source_classNames, target_node) ==
    IF source_classNames = <<>> THEN <<>>
    ELSE SelectSeq(all_simple_paths(G, ListIndex(classNames[1], Head(source_classNames)),
                                    target_node, "no path to itself"),
                   LAMBDA path : Len(path) > 1)
             \o C22_PathsOfSources(G, Tail(source_classNames), target_node)

C22_PathsMet ==
    C22_PathsOfSources(nx_DiGraph(result_matrix[1]), answer[1].source_classNames, TargetNode)

\* the positions in a list of paths of the paths no other path is longer than
C22_LongestOf(paths) ==
    {k \in DOMAIN paths : \A other \in DOMAIN paths : Len(paths[other]) <= Len(paths[k])}

\* C22: when paths are found, get_longest_path returns the one met first among
\* those of the greatest length, the sources taken in the order given and the
\* paths of a source in the order all_simple_paths yields them; a path met
\* later with the same length does not replace it.
C22_FirstLongestKept ==
    LongestPathAnswered =>
        LET met == C22_PathsMet
            longest == C22_LongestOf(met)
        IN  met # <<>> =>
                \E k \in longest :
                    /\ \A other \in longest : k <= other
                    /\ LongestPathReturned.a_longest_path_indices = Some(met[k])
                    /\ LongestPathReturned.max_length = Len(met[k]) - 1

\* two sources each with a longest path to the target: the path returned starts
\* at the source listed first, which is the class later in the catalog
C22_Witness ==
    /\ LongestPathAnswered
    /\ Len(answer[1].source_classNames) = 2
    /\ StrLess(answer[1].source_classNames[2], answer[1].source_classNames[1])
    /\ LongestPathReturned.a_longest_path_indices # None
    /\ LongestPathReturned.a_longest_path_indices[1][1]
           = ListIndex(classNames[1], answer[1].source_classNames[1])
    /\ LET met == C22_PathsMet
           longest == C22_LongestOf(met)
       IN  /\ Cardinality(longest) >= 2
           /\ \E k \in longest :
                  met[k][1] = ListIndex(classNames[1], answer[1].source_classNames[2])
(***************************************************************************)
(* C23 to C26: the settings of transitive_closure_1.  The unions of powers *)
(* are stated on walks of the relation, not by the loop.                   *)
(***************************************************************************)
RECURSIVE WalkSets(_, _)
\* the sequence whose l-th element, l in 1 .. k, is the set of the pairs
\* joined by a walk of exactly l edges of m
WalkSets(m, k) ==
    IF k = 1 THEN <<EdgesOf(m)>>
    ELSE LET shorter == WalkSets(m, k - 1)
             last == shorter[k - 1]
         IN  Append(shorter,
                    {p \in (DOMAIN m) \X (DOMAIN m) :
                        \E h \in DOMAIN m : <<p[1], h>> \in last /\ m[h][p[2]] # 0})

\* the sequence whose k-th element, k in 1 .. last, is the union of the
\* powers 1 .. k of m
UnionsOfPowers(m, last) ==
    LET walks == WalkSets(m, last)
    IN  [k \in 1 .. last |->
            LET joined == UNION {walks[l] : l \in 1 .. k}
            IN  [i \in DOMAIN m |->
                    [j \in DOMAIN m |-> IF <<i, j>> \in joined THEN 1 ELSE 0]]]

\* transitive_closure_1 was called with its settings chosen
SettingsCalled == calls # <<>> /\ calls[1].fn = "transitive_closure_1 settings"

\* the greatest power the range of the loop reaches, 1 when the range is empty
LastPowerOfRange ==
    IF Shape(input) + calls[1].extra_powers > 2
    THEN Shape(input) + calls[1].extra_powers - 1
    ELSE 1

\* the powers of the range at which the union is the union of the powers
\* before it
RepeatedUnions ==
    LET unions == UnionsOfPowers(input, LastPowerOfRange)
    IN  {k \in 2 .. LastPowerOfRange : unions[k] = unions[k - 1]}

\* C23: with early stopping and patience 0 the last power the loop computes
\* is the first power k >= 2 whose union is the union held before it, the
\* union held before power 2 being the relation; without such a power the
\* loop runs to the end of its range and is not left by the break.
C23_StopAtFirstRepeat ==
    (SettingsCalled /\ calls[1].early_stopping_active /\ calls[1].patience = 0) =>
        IF RepeatedUnions # {}
        THEN LET repeats == RepeatedUnions
             IN  /\ calls[1].idx \in repeats
                 /\ \A k \in repeats : calls[1].idx <= k
        ELSE /\ ~calls[1].we_can_stop
             /\ calls[1].idx = LastPowerOfRange


\* C24: with early stopping the matrix returned with any extra_powers is the
\* matrix returned with extra_powers 0, for every patience.
C24_ExtraPowersRedundant ==
    (SettingsCalled /\ calls[1].early_stopping_active) =>
        calls[1].ret = transitive_closure_1(input, 0, calls[1].patience, TRUE).tc


\* C25: for every setting, transitive_closure_1 returns alert = False, and no
\* power of the range whose union is the union before it is followed by a
\* power whose union differs from the union before it.
C25_NoAlert ==
    SettingsCalled =>
        /\ calls[1].alert = FALSE
        /\ LET repeats == RepeatedUnions
           IN  \A k \in repeats : \A later \in k .. LastPowerOfRange : later \in repeats

\* without early stopping and with an extra power, a relation with an edge
\* whose union repeats at a power and is computed again at the next one
C25_Witness ==
    /\ SettingsCalled
    /\ ~calls[1].early_stopping_active
    /\ calls[1].extra_powers > 0
    /\ count_nonzero(input) > 0
    /\ \E k \in RepeatedUnions : k < calls[1].idx
    /\ calls[1].alert = FALSE


\* C26: for every patience and extra_powers, transitive_closure_1 with early
\* stopping returns the matrix it returns without early stopping, which is
\* the union of the powers 1 .. N - 1 + extra_powers of the relation.
C26_EarlyStoppingKeepsResult ==
    SettingsCalled =>
        /\ calls[1].ret = UnionsOfPowers(input, LastPowerOfRange)[LastPowerOfRange]
        /\ calls[1].early_stopping_active =>
               calls[1].ret = transitive_closure_1(input, calls[1].extra_powers,
                                                   calls[1].patience, FALSE).tc

\* a call that early stopping ended before the last power of the range, on a
\* relation with an edge and a patience above 0
C26_Witness ==
    /\ SettingsCalled
    /\ calls[1].early_stopping_active
    /\ calls[1].patience > 0
    /\ calls[1].we_can_stop
    /\ calls[1].idx < LastPowerOfRange
    /\ count_nonzero(input) > 0

(***************************************************************************)
(* C27: the two variants of transitive_closure_2                           *)
(***************************************************************************)

\* C27: on a binary relation, transitive_closure_2 with 'add_and_clamp'
\* returns the matrix it returns with 'boolean_OR', which is the transitive
\* closure of the relation.
C27_VariantsAgree ==
    \A c \in 1 .. Len(calls) :
        calls[c].fn = "transitive_closure_2 add_and_clamp" =>
            /\ IsBinary(calls[c].arg)
            /\ calls[c].ret = transitive_closure_2(calls[c].arg, "boolean_OR")
            /\ calls[c].ret = ClosureRelation(calls[c].arg)

\* a call of the additive variant on a relation in which the sums pass 1, so
\* that the clamp after the loops changes the matrix
C27_Witness ==
    /\ Called("transitive_closure_2 add_and_clamp")
    /\ TC2ForCol(input, 0, Shape(input), "add_and_clamp") # calls[1].ret
    /\ calls[1].ret # input

=============================================================================
